---- MODULE Spec2Model ----
(***************************************************************************)
(* Model of the woox order-book synchroniser.                              *)
(*                                                                         *)
(*   src/src/orderbook.rs  LocalOrderBook: new, apply_snapshot,            *)
(*                         apply_delta, print_top_5                        *)
(*   src/src/main.rs       connect_stream (the reader thread and the mpsc  *)
(*                         channel), process_orderbook (the synchroniser), *)
(*                         main                                            *)
(*                                                                         *)
(* Prices and quantities are f64 in the source; the model uses small       *)
(* naturals, which keeps what the code uses of them: the total order of    *)
(* OrderedFloat keys, and the comparison quantity == 0.0.                  *)
(***************************************************************************)
EXTENDS Integers, Sequences, FiniteSets, TLC

(***************************************************************************)
(* Bounds of the model.                                                    *)
(***************************************************************************)
\* prices are 1..MaxPrice
MaxPrice == 6
\* quantities are 0..MaxQty
MaxQty == 2
\* Spec: sequence numbers (timestamp, prevTs) are 0..MaxSeq
MaxSeq == 2
\* Spec: number of times the reader calls socket.read()
MaxReads == 3

\* print_top_5 takes 5 levels per side (orderbook.rs:60-61)
TopN == 5

Prices == 1..MaxPrice
Qtys == 0..MaxQty
SeqNums == 0..MaxSeq

\* WsQuote / RestQuote after parsing: a price and a quantity
Quote(p, q) == [price |-> p, quantity |-> q]
Quotes == {Quote(p, q) : p \in Prices, q \in Qtys}

\* Option: None, and Some(v)
None == [none |-> TRUE]
Some(v) == [some |-> v]

(***************************************************************************)
(* BTreeMap<OrderedFloat<f64>, f64>: a function from the set of keys it    *)
(* holds to their values.  Iteration is in ascending key order.            *)
(***************************************************************************)
\* BTreeMap::new() and the result of BTreeMap::clear()
EmptyMap == << >>

\* BTreeMap::insert: insert-or-replace
MapInsert(m, k, v) == [x \in (DOMAIN m) \cup {k} |-> IF x = k THEN v ELSE m[x]]

\* BTreeMap::remove: the key is dropped; removing an absent key does nothing
MapRemove(m, k) == [x \in (DOMAIN m) \ {k} |-> m[x]]

MinOf(S) == CHOOSE x \in S : \A y \in S : x <= y

RECURSIVE AscendingKeys(_)
AscendingKeys(S) ==
    IF S = {} THEN << >>
    ELSE LET k == MinOf(S) IN << k >> \o AscendingKeys(S \ {k})

\* BTreeMap::iter(): the (key, value) pairs in ascending key order
MapIter(m) ==
    LET ks == AscendingKeys(DOMAIN m)
    IN  [i \in 1..Len(ks) |-> [price |-> ks[i], quantity |-> m[ks[i]]]]

\* Iterator::rev()
Rev(s) == [i \in 1..Len(s) |-> s[Len(s) + 1 - i]]

\* mutant of Take: nothing is cut
Take_all(s, n) == s

\* Iterator::take(n)
Take(s, n) == IF Len(s) <= n THEN s ELSE SubSeq(s, 1, n)

(***************************************************************************)
(* LocalOrderBook                                                          *)
(***************************************************************************)
\* apply_snapshot, the loop over data.bids (orderbook.rs:24-26)
RECURSIVE SnapshotInsertBids(_, _)
SnapshotInsertBids(m, quotes) ==
    IF quotes = << >> THEN m
    ELSE SnapshotInsertBids(MapInsert(m, Head(quotes).price, Head(quotes).quantity),
                            Tail(quotes))

\* apply_snapshot, the loop over data.asks (orderbook.rs:28-30)
RECURSIVE SnapshotInsertAsks(_, _)
SnapshotInsertAsks(m, quotes) ==
    IF quotes = << >> THEN m
    ELSE SnapshotInsertAsks(MapInsert(m, Head(quotes).price, Head(quotes).quantity),
                            Tail(quotes))

\* mutant of Cleared: the map is not cleared
Cleared_not(m) == m

\* self.bids.clear() / self.asks.clear() (orderbook.rs:21-22)
Cleared(m) == EmptyMap

\* apply_snapshot on the bid side: clear, then insert every level
apply_snapshot_bids(m, quotes) == SnapshotInsertBids(Cleared(m), quotes)

\* apply_snapshot on the ask side: clear, then insert every level
apply_snapshot_asks(m, quotes) == SnapshotInsertAsks(Cleared(m), quotes)

\* mutant of DeltaBidStep: a level with quantity 0 is stored like any other
DeltaBidStep_store(m, quote) == MapInsert(m, quote.price, quote.quantity)

\* the body of apply_delta's loop over delta.bids (orderbook.rs:37-41)
DeltaBidStep(m, quote) ==
    IF quote.quantity = 0 THEN MapRemove(m, quote.price)
    ELSE MapInsert(m, quote.price, quote.quantity)

\* the body of apply_delta's loop over delta.asks (orderbook.rs:45-49)
DeltaAskStep(m, quote) ==
    IF quote.quantity = 0 THEN MapRemove(m, quote.price)
    ELSE MapInsert(m, quote.price, quote.quantity)

\* apply_delta, the loop over delta.bids (orderbook.rs:36-42)
RECURSIVE apply_delta_bids(_, _)
apply_delta_bids(m, quotes) ==
    IF quotes = << >> THEN m
    ELSE apply_delta_bids(DeltaBidStep(m, Head(quotes)), Tail(quotes))

\* apply_delta, the loop over delta.asks (orderbook.rs:44-50)
RECURSIVE apply_delta_asks(_, _)
apply_delta_asks(m, quotes) ==
    IF quotes = << >> THEN m
    ELSE apply_delta_asks(DeltaAskStep(m, Head(quotes)), Tail(quotes))

\* mutant of TopBids: the bids are not reversed
TopBids_norev(m) == Take(MapIter(m), TopN)

\* print_top_5: self.bids.iter().rev().take(5).collect() (orderbook.rs:60)
TopBids(m) == Take(Rev(MapIter(m)), TopN)

\* print_top_5: self.asks.iter().take(5).collect() (orderbook.rs:61)
TopAsks(m) == Take(MapIter(m), TopN)


(***************************************************************************)
(* State                                                                   *)
(***************************************************************************)
VARIABLES
    \* the reader thread spawned by connect_stream
    rpc,            \* "connect", "subscribe", "loop", "done", "panicked"
    sock,           \* "open", or "lost" once the connection has dropped
    nreads,         \* calls of socket.read() so far
    \* the log of the reader thread, kept in runs that start with logging
    lastRead,       \* what the last socket.read() returned: "none" before
                    \* the first, "err", "other", or the Shape of the frame
    pongs,          \* pong replies sent so far
    badSeen,        \* a frame has failed to parse
    \* what a run is started with
    stride,         \* by how much the exchange's ts exceeds its prevTs
    logging,        \* whether the log of the reader thread is kept
    \* the mpsc channel
    chan,           \* events sent and not yet received, oldest first
    forwarded,      \* history: every event tx.send accepted, in order
    received,       \* history: every event the for loop took, in order
    \* process_orderbook on the main thread
    spc,            \* "Buffering", "Fetching", "Reconciling", "Synced",
                    \* "Aborted", "Ended", "Panicked"
    snapshot,       \* the RestSnapshot fetched, None before
    outcome,        \* what the loop body did with the last event taken
    nsnap,          \* history: calls of apply_snapshot so far
    exited,         \* the process has terminated
    \* the LocalOrderBook
    bids, asks,
    op,             \* the last mutating call: "none", "snapshot", "delta"
    arg,            \* its argument (the bid and ask lists), None for new
    preBids, preAsks,       \* the book as that call found it
    printed,        \* print_top_5 ran after that call
    shownBids, shownAsks    \* the two vectors print_top_5 collected last

logVars == << lastRead, pongs, badSeen >>
runVars == << stride, logging >>
readerVars == << rpc, sock, nreads, logVars, runVars >>
chanVars == << chan, forwarded, received >>
syncVars == << spc, snapshot, outcome, nsnap, exited >>
bookVars == << bids, asks, op, arg, preBids, preAsks >>
printVars == << printed, shownBids, shownAsks >>
vars == << rpc, sock, nreads, lastRead, pongs, badSeen, stride, logging, chan, forwarded, received, spc, snapshot, outcome,
           nsnap, exited, bids, asks, op, arg, preBids, preAsks, printed,
           shownBids, shownAsks >>

\* the bid and ask lists of a SnapshotData or an OrderBookDelta
ListsOf(d) == [bids |-> d.bids, asks |-> d.asks]

(***************************************************************************)
(* LocalOrderBook methods as state changes                                 *)
(***************************************************************************)
\* LocalOrderBook::new()
new == [bids |-> EmptyMap, asks |-> EmptyMap]

\* LocalOrderBook::apply_snapshot(data) on the book self
apply_snapshot(self, data) ==
    /\ bids' = apply_snapshot_bids(self.bids, data.bids)
    /\ asks' = apply_snapshot_asks(self.asks, data.asks)
    /\ preBids' = self.bids
    /\ preAsks' = self.asks
    /\ op' = "snapshot"
    /\ arg' = ListsOf(data)

\* LocalOrderBook::apply_delta(delta)
apply_delta(delta) ==
    /\ bids' = apply_delta_bids(bids, delta.bids)
    /\ asks' = apply_delta_asks(asks, delta.asks)
    /\ preBids' = bids
    /\ preAsks' = asks
    /\ op' = "delta"
    /\ arg' = ListsOf(delta)

\* LocalOrderBook::print_top_5(), reading the book b_bids, b_asks; &self: the
\* book is not written
print_top_5(b_bids, b_asks) ==
    /\ shownBids' = TopBids(b_bids)
    /\ shownAsks' = TopAsks(b_asks)
    /\ printed' = TRUE


(***************************************************************************)
(* Inputs of Spec: what the exchange sends                                 *)
(***************************************************************************)
\* the bid/ask payloads of the delta frames the model's exchange sends: one
\* that deletes a bid level and one that inserts on both sides
WireDeltas ==
    { [bids |-> << Quote(2, 0) >>, asks |-> << >>],
      [bids |-> << Quote(1, 2) >>, asks |-> << Quote(4, 1) >>] }

\* OrderBookDelta as parsed from the "data" member of a frame
OrderBookDeltas ==
    { [prev_ts |-> p, bids |-> d.bids, asks |-> d.asks] :
        p \in SeqNums, d \in WireDeltas }

\* WsMessage as parsed by serde_json: ts and data are both optional.  A
\* data frame of the exchange carries ts = prevTs + stride in this model.
WsMessages ==
    { [ts |-> None, data |-> None], [ts |-> Some(1), data |-> None] }
    \cup { [ts |-> None, data |-> Some(d)] : d \in OrderBookDeltas }
    \cup { [ts |-> Some(d.prev_ts + stride), data |-> Some(d)] : d \in OrderBookDeltas }

\* Result<WsMessage, serde_json::Error> of serde_json::from_str
ParseErr == [ok |-> FALSE]
ParseOk(m) == [ok |-> TRUE, msg |-> m]

\* What socket.read() returns: Err, a message that is not Message::Text, or
\* a text frame.  Of a text frame the code reads whether it contains "PING",
\* whether it contains "success", and what serde_json makes of it.
TextFrames ==
    { [kind |-> "text", ping |-> pg, success |-> su, json |-> j] :
        pg \in BOOLEAN, su \in BOOLEAN,
        j \in {ParseErr} \cup {ParseOk(m) : m \in WsMessages} }

\* the snapshots the model's REST endpoint returns: the book of the spec's
\* scenarios A-D, and one that lists a level with quantity 0
WireSnapshotData ==
    { [bids |-> << Quote(2, 1) >>, asks |-> << Quote(3, 1) >>],
      [bids |-> << Quote(2, 0), Quote(1, 1) >>, asks |-> << >>] }

RestSnapshots ==
    { [timestamp |-> t, data |-> d] : t \in SeqNums, d \in WireSnapshotData }

(***************************************************************************)
(* main                                                                    *)
(***************************************************************************)
\* the Sender is dropped when the reader thread ends, by break or by panic
txAlive == rpc \notin {"done", "panicked"}

\* the Receiver is dropped when process_orderbook returns or unwinds
rxAlive == spc \notin {"Aborted", "Ended", "Panicked"}

\* the state in which main starts, for an exchange whose ts is prevTs + step
InitWith(step, log) ==
    /\ rpc = "connect"
    /\ sock = "open"
    /\ nreads = 0
    /\ lastRead = "none"
    /\ pongs = 0
    /\ badSeen = FALSE
    /\ stride = step
    /\ logging = log
    /\ chan = << >>
    /\ forwarded = << >>
    /\ received = << >>
    /\ spc = "Buffering"
    /\ snapshot = None
    /\ outcome = "none"
    /\ nsnap = 0
    /\ exited = FALSE
    /\ bids = EmptyMap
    /\ asks = EmptyMap
    /\ op = "none"
    /\ arg = None
    /\ preBids = EmptyMap
    /\ preAsks = EmptyMap
    /\ printed = FALSE
    /\ shownBids = << >>
    /\ shownAsks = << >>

Init == InitWith(1, FALSE)

(***************************************************************************)
(* connect_stream: the reader thread (main.rs:109-159)                     *)
(***************************************************************************)
\* connect(...).expect(...) (main.rs:111-112)
Connect ==
    /\ rpc = "connect"
    /\ ~exited
    /\ \/ rpc' = "subscribe"
       \/ rpc' = "panicked"
    /\ UNCHANGED << sock, nreads, logVars, runVars, chanVars, syncVars,
                    bookVars, printVars >>

\* socket.send(subscribe).unwrap() (main.rs:123)
Subscribe ==
    /\ rpc = "subscribe"
    /\ ~exited
    /\ \/ rpc' = "loop"
       \/ rpc' = "panicked"
    /\ UNCHANGED << sock, nreads, logVars, runVars, chanVars, syncVars,
                    bookVars, printVars >>

\* mutant of Send: the event is put at the front of the queue
Send_front(queue, event) == << event >> \o queue

\* tx.send(event): the event is queued while the Receiver exists
Send(queue, event) == Append(queue, event)

\* what a loop iteration adds to the log of the reader thread
Log(read, sent, bad) ==
    /\ lastRead' = IF logging THEN read ELSE lastRead
    /\ pongs' = IF logging THEN pongs + sent ELSE pongs
    /\ badSeen' = IF logging THEN badSeen \/ bad ELSE badSeen

\* one iteration of the loop in which socket.read() fails (main.rs:126): the
\* if-let does not match and the loop goes round again
ReadErr ==
    /\ rpc = "loop"
    /\ ~exited
    /\ nreads < MaxReads
    /\ nreads' = nreads + 1
    /\ sock' = "lost"
    /\ Log("err", 0, FALSE)
    /\ UNCHANGED << rpc, runVars, chanVars, syncVars, bookVars, printVars >>

\* one iteration of the loop in which socket.read() returns a message that
\* is not Message::Text (main.rs:127)
ReadOther ==
    /\ rpc = "loop"
    /\ ~exited
    /\ sock = "open"
    /\ nreads < MaxReads
    /\ nreads' = nreads + 1
    /\ Log("other", 0, FALSE)
    /\ UNCHANGED << rpc, sock, runVars, chanVars, syncVars, bookVars,
                    printVars >>

\* whether serde_json finds both ts and data in the frame (main.rs:142-144)
IsData(json) == json.ok /\ json.msg.ts # None /\ json.msg.data # None

\* mutant of FrameAction: the "PING" check is made after the parse
FrameAction_parseFirst(frame) ==
    IF IsData(frame.json) THEN "forward"
    ELSE IF frame.ping THEN "pong"
    ELSE IF frame.success THEN "skip"
    ELSE IF ~frame.json.ok THEN "parse_err"
    ELSE "ignore"

\* what the loop body does with a text frame (main.rs:128-155)
FrameAction(frame) ==
    IF frame.ping THEN "pong"
    ELSE IF frame.success THEN "skip"
    ELSE IF ~frame.json.ok THEN "parse_err"
    ELSE IF frame.json.msg.ts # None /\ frame.json.msg.data # None THEN "forward"
    ELSE "ignore"

\* what the log keeps of a text frame: the markers it contains and the
\* parts serde_json finds in it
Shape(frame) ==
    IF frame.ping THEN (IF IsData(frame.json) THEN "ping+data" ELSE "ping")
    ELSE IF frame.success
    THEN (IF IsData(frame.json) THEN "success+data" ELSE "success")
    ELSE IF ~frame.json.ok THEN "unparsable"
    ELSE IF IsData(frame.json) THEN "data"
    ELSE IF frame.json.msg.ts # None THEN "no_data"
    ELSE IF frame.json.msg.data # None THEN "no_ts"
    ELSE "empty"

\* mutant of MarketEvent: prev_ts is taken from the top-level ts
MarketEvent_tsAsPrev(parsed) ==
    [ts |-> parsed.ts.some, prev_ts |-> parsed.ts.some,
     delta |-> parsed.data.some]

\* MarketEvent { ts, prev_ts: data.prev_ts, delta: data } (main.rs:145-149)
MarketEvent(parsed) ==
    [ts |-> parsed.ts.some, prev_ts |-> parsed.data.some.prev_ts,
     delta |-> parsed.data.some]

\* the frame reaches tx.send (main.rs:144-151)
Forwards(frame) == FrameAction(frame) = "forward"

\* mutant of AfterBody: a frame that fails to parse ends the loop
AfterBody_parseFatal(act, sendFailed) ==
    IF act = "parse_err" \/ sendFailed THEN "done" ELSE "loop"

\* mutant of AfterBody: a failed tx.send does not break
AfterBody_noBreak(act, sendFailed) == "loop"

\* where the reader is after the loop body, unless the pong's unwrap has
\* panicked: break after a failed tx.send, else the next iteration
\* (main.rs:137, 140, 151, 154, 157)
AfterBody(act, sendFailed) == IF sendFailed THEN "done" ELSE "loop"

\* how many pongs the loop body sends (main.rs:128-137)
PongsSent(act) == IF act = "pong" THEN 1 ELSE 0

\* one iteration of the loop in which socket.read() returns a text frame
\* (main.rs:126-156)
ReadText ==
    /\ rpc = "loop"
    /\ ~exited
    /\ sock = "open"
    /\ nreads < MaxReads
    /\ nreads' = nreads + 1
    /\ \E frame \in TextFrames :
        LET act == FrameAction(frame) IN
        \/ \* socket.send(pong).unwrap() panics
           /\ act = "pong"
           /\ rpc' = "panicked"
           /\ Log(Shape(frame), 0, FALSE)
           /\ UNCHANGED chanVars
        \/ /\ ~Forwards(frame)
           /\ rpc' = AfterBody(act, FALSE)
           /\ Log(Shape(frame), PongsSent(act), act = "parse_err")
           /\ UNCHANGED chanVars
        \/ /\ Forwards(frame)
           /\ rxAlive
           /\ chan' = Send(chan, MarketEvent(frame.json.msg))
           /\ forwarded' = Append(forwarded, MarketEvent(frame.json.msg))
           /\ rpc' = AfterBody(act, FALSE)
           /\ Log(Shape(frame), PongsSent(act), FALSE)
           /\ UNCHANGED received
        \/ \* tx.send(event).is_err()
           /\ Forwards(frame)
           /\ ~rxAlive
           /\ rpc' = AfterBody(act, TRUE)
           /\ Log(Shape(frame), PongsSent(act), FALSE)
           /\ UNCHANGED chanVars
    /\ UNCHANGED << sock, runVars, syncVars, bookVars, printVars >>

(***************************************************************************)
(* process_orderbook (main.rs:166-210)                                     *)
(***************************************************************************)
\* thread::sleep(3000 ms) is over (main.rs:168)
Buffer ==
    /\ spc = "Buffering"
    /\ ~exited
    /\ spc' = "Fetching"
    /\ UNCHANGED << readerVars, chanVars, snapshot, outcome, nsnap, exited,
                    bookVars, printVars >>

\* mutant of Fetch: the snapshot is fetched and applied, and fetched again
Fetch_again ==
    /\ spc = "Fetching"
    /\ ~exited
    /\ \E s \in RestSnapshots :
        /\ snapshot' = s
        /\ apply_snapshot(new, s.data)
    /\ nsnap' = nsnap + 1
    /\ spc' \in {"Fetching", "Reconciling"}
    /\ UNCHANGED << readerVars, chanVars, outcome, exited, printVars >>

\* the blocking GET and its parse succeed; the book is created and the
\* snapshot applied (main.rs:173-185)
Fetch ==
    /\ spc = "Fetching"
    /\ ~exited
    /\ \E s \in RestSnapshots :
        /\ snapshot' = s
        /\ apply_snapshot(new, s.data)
    /\ nsnap' = nsnap + 1
    /\ spc' = "Reconciling"
    /\ UNCHANGED << readerVars, chanVars, outcome, exited, printVars >>

\* the GET or its parse fails: expect() panics on the main thread
\* (main.rs:173-176)
FetchFail ==
    /\ spc = "Fetching"
    /\ ~exited
    /\ spc' = "Panicked"
    /\ UNCHANGED << readerVars, chanVars, snapshot, outcome, nsnap, exited,
                    bookVars, printVars >>

\* mutant of Reconcile: an event newer than the snapshot syncs instead of
\* aborting the run
Reconcile_gapSyncs(prev_ts, timestamp) ==
    IF prev_ts < timestamp THEN "drop" ELSE "sync"

\* mutant of Reconcile: an event older than the snapshot syncs as well
Reconcile_applyStale(prev_ts, timestamp) ==
    IF prev_ts <= timestamp THEN "sync"
    ELSE IF prev_ts > timestamp THEN "abort"
    ELSE "fallthrough"

\* mutant of Reconcile: an event with prev_ts = timestamp is dropped too
Reconcile_le(prev_ts, timestamp) ==
    IF prev_ts <= timestamp THEN "drop"
    ELSE IF prev_ts > timestamp THEN "abort"
    ELSE "fallthrough"

\* the branch the loop body takes for an event while !synced
\* (main.rs:189-204)
Reconcile(prev_ts, timestamp) ==
    IF prev_ts < timestamp THEN "drop"
    ELSE IF prev_ts = timestamp THEN "sync"
    ELSE IF prev_ts > timestamp THEN "abort"
    ELSE "fallthrough"

\* mutant of Handle: the sequence check is made on every event
Handle_recheck(synced, prev_ts, timestamp) == Reconcile(prev_ts, timestamp)

\* the branch the loop body takes for an event (main.rs:188-208)
Handle(synced, prev_ts, timestamp) ==
    IF ~synced THEN Reconcile(prev_ts, timestamp) ELSE "apply"

\* mutant of Receiving: the loop takes no event before the sync
Receiving_onlySynced == spc = "Synced"

\* mutant of Receiving: the gap branch does not leave the loop
Receiving_afterAbort == spc \in {"Reconciling", "Synced", "Aborted"}

\* the state in which the for loop waits for the next event (main.rs:187)
Receiving == spc \in {"Reconciling", "Synced"}

\* one iteration of `for event in receiver` (main.rs:187-209)
Recv ==
    /\ Receiving
    /\ ~exited
    /\ chan # << >>
    /\ LET event == Head(chan)
           how == Handle(spc = "Synced", event.prev_ts, snapshot.timestamp)
       IN
        /\ chan' = Tail(chan)
        /\ received' = Append(received, event)
        /\ outcome' = how
        /\ \/ /\ how \in {"drop", "fallthrough"}
              /\ UNCHANGED << spc, bookVars, printVars >>
           \/ /\ how \in {"sync", "apply"}
              /\ spc' = "Synced"
              /\ apply_delta(event.delta)
              /\ print_top_5(bids', asks')
           \/ /\ how = "abort"
              /\ spc' = "Aborted"
              /\ UNCHANGED << bookVars, printVars >>
    /\ UNCHANGED << readerVars, forwarded, snapshot, nsnap, exited >>

\* mutant of RecvDisconnected: the iterator waits on the empty queue though
\* the Sender is gone
RecvDisconnected_blocks ==
    /\ FALSE
    /\ UNCHANGED vars

\* the iterator ends: the queue is empty and the Sender is gone
\* (main.rs:187, 210)
RecvDisconnected ==
    /\ Receiving
    /\ ~exited
    /\ chan = << >>
    /\ ~txAlive
    /\ spc' = "Ended"
    /\ UNCHANGED << readerVars, chanVars, snapshot, outcome, nsnap, exited,
                    bookVars, printVars >>

\* main returns, or its panic has unwound: the process ends and the reader
\* thread with it (main.rs:212-215)
Exit ==
    /\ ~rxAlive
    /\ ~exited
    /\ exited' = TRUE
    /\ UNCHANGED << readerVars, chanVars, spc, snapshot, outcome, nsnap,
                    bookVars, printVars >>

Next ==
    \/ Connect
    \/ Subscribe
    \/ ReadErr
    \/ ReadOther
    \/ ReadText
    \/ Buffer
    \/ Fetch
    \/ FetchFail
    \/ Recv
    \/ RecvDisconnected
    \/ Exit

Spec == Init /\ [][Next]_vars

\* the same program, with the log of the reader thread kept
InitReader == InitWith(1, TRUE)

SpecReader == InitReader /\ [][Next]_vars

\* the same program, fed by an exchange whose ts runs two ahead of prevTs,
\* so that a snapshot timestamp can lie strictly between the two
InitStraddle == InitWith(2, FALSE)

SpecStraddle == InitStraddle /\ [][Next]_vars

\* the steps of the spawned thread (main.rs:109-159) and of the main thread
\* (main.rs:166-215)
ReaderStep == Connect \/ Subscribe \/ ReadErr \/ ReadOther \/ ReadText

MainStep == Buffer \/ Fetch \/ FetchFail \/ Recv \/ RecvDisconnected \/ Exit

\* the same program with both threads scheduled fairly: a thread that can
\* take a step does not wait forever
FairSpec == Spec /\ WF_vars(ReaderStep) /\ WF_vars(MainStep)

\* the same program with the main thread scheduled fairly, and nothing
\* assumed of the reader thread
FairMainSpec == Spec /\ WF_vars(MainStep)


(***************************************************************************)
(* SpecBook: the LocalOrderBook alone.  A book the program can hold (what  *)
(* apply_snapshot makes of a new book) receives one call, apply_snapshot   *)
(* or apply_delta, and is read by print_top_5 before or after it.          *)
(***************************************************************************)
\* the levels of prices 1..n, each with quantity q, in ascending price order
Ladder(n, q) == [i \in 1..n |-> Quote(i, q)]

\* the quote lists of the calls: the empty list, one level, one price
\* listed twice, and ladders in ascending and in descending price order
QuoteLists ==
    { << >> }
    \cup { << a >> : a \in Quotes }
    \cup { << Quote(p, q1), Quote(p, q2) >> : p \in Prices, q1 \in Qtys, q2 \in Qtys }
    \cup { Ladder(n, q) : n \in Prices, q \in Qtys }
    \cup { Rev(Ladder(n, q)) : n \in Prices, q \in Qtys }

\* the arguments of the calls: a list for one side, or the same for both
BookInputs ==
    { [bids |-> l, asks |-> << >>] : l \in QuoteLists }
    \cup { [bids |-> << >>, asks |-> l] : l \in QuoteLists }
    \cup { [bids |-> l, asks |-> l] : l \in QuoteLists }

InitBook ==
    /\ rpc = "connect"
    /\ sock = "open"
    /\ nreads = 0
    /\ lastRead = "none"
    /\ pongs = 0
    /\ badSeen = FALSE
    /\ stride = 1
    /\ logging = FALSE
    /\ chan = << >>
    /\ forwarded = << >>
    /\ received = << >>
    /\ spc = "Buffering"
    /\ snapshot = None
    /\ outcome = "none"
    /\ nsnap = 0
    /\ exited = FALSE
    /\ \E data \in BookInputs :
        /\ bids = apply_snapshot_bids(new.bids, data.bids)
        /\ asks = apply_snapshot_asks(new.asks, data.asks)
    /\ op = "none"
    /\ arg = None
    /\ preBids = EmptyMap
    /\ preAsks = EmptyMap
    /\ printed = FALSE
    /\ shownBids = << >>
    /\ shownAsks = << >>

\* book.apply_snapshot(data)
BookApplySnapshot ==
    /\ op = "none"
    /\ \E data \in BookInputs :
        apply_snapshot([bids |-> bids, asks |-> asks], data)
    /\ printed' = FALSE
    /\ UNCHANGED << readerVars, chanVars, syncVars, shownBids, shownAsks >>

\* book.apply_delta(delta)
BookApplyDelta ==
    /\ op = "none"
    /\ \E delta \in BookInputs : apply_delta(delta)
    /\ printed' = FALSE
    /\ UNCHANGED << readerVars, chanVars, syncVars, shownBids, shownAsks >>

\* book.print_top_5()
BookPrintTop5 ==
    /\ ~printed
    /\ print_top_5(bids, asks)
    /\ UNCHANGED << readerVars, chanVars, syncVars, bookVars >>

NextBook ==
    \/ BookApplySnapshot
    \/ BookApplyDelta
    \/ BookPrintTop5

SpecBook == InitBook /\ [][NextBook]_vars


(***************************************************************************)
(* Properties of process_orderbook and the channel, checked under Spec     *)
(***************************************************************************)
\* the step takes an event from the channel
TakesEvent == received' # received

\* the step applies the delta of the event at the head of the channel
AppliesHead ==
    /\ bids' = apply_delta_bids(bids, Head(chan).delta.bids)
    /\ asks' = apply_delta_asks(asks, Head(chan).delta.asks)

BookUnchanged == bids' = bids /\ asks' = asks

\* C1: while Reconciling, an event taken from the channel is handled by the
\* comparison of its prev_ts with snapshot.timestamp alone: less, it is
\* dropped, the book is unchanged and the state stays Reconciling; equal,
\* its delta is applied and the state becomes Synced; greater, the state
\* becomes Aborted.  There is no other outcome.
C1_ReconcileDecision ==
    [][ (spc = "Reconciling" /\ TakesEvent) =>
          LET event == Head(chan) IN
          /\ received' = Append(received, event)
          /\ spc' \in {"Reconciling", "Synced", "Aborted"}
          /\ event.prev_ts < snapshot.timestamp =>
                (spc' = "Reconciling" /\ BookUnchanged)
          /\ event.prev_ts = snapshot.timestamp =>
                (spc' = "Synced" /\ AppliesHead)
          /\ event.prev_ts > snapshot.timestamp => spc' = "Aborted" ]_vars

\* C1 witness: scenario A then scenario B: a stale event was dropped, then
\* the event with prev_ts = snapshot.timestamp deleted the only bid level
C1_Witness ==
    /\ spc = "Synced"
    /\ Len(received) = 2
    /\ received[1].prev_ts < snapshot.timestamp
    /\ received[2].prev_ts = snapshot.timestamp
    /\ outcome = "sync"
    /\ preBids # EmptyMap
    /\ bids = EmptyMap
    /\ asks = preAsks

\* C2: Aborted is terminal.  The gap event that aborts is not applied; from
\* then on no event is taken from the channel, the book does not change,
\* and there is no second fetch and no second subscribe.
C2_AbortedTerminal ==
    [][ /\ (spc # "Aborted" /\ spc' = "Aborted") =>
              /\ spc = "Reconciling"
              /\ Head(chan).prev_ts > snapshot.timestamp
              /\ BookUnchanged
        /\ spc = "Aborted" =>
              /\ spc' = "Aborted"
              /\ received' = received
              /\ chan' = chan
              /\ BookUnchanged
              /\ snapshot' = snapshot
              /\ nsnap' = nsnap
              /\ rpc' \notin {"connect", "subscribe"} ]_vars

\* C2 witness: the run aborted with an event still queued, and the reader
\* went on reading afterwards (its send then failed)
C2_Witness ==
    /\ spc = "Aborted"
    /\ outcome = "abort"
    /\ chan # << >>
    /\ rpc = "done"

\* C3: once Synced, every event taken from the channel is applied, whatever
\* its prev_ts, in the order of arrival, and the state never becomes
\* Reconciling or Aborted again.
C3_SyncedAbsorbing ==
    [][ spc = "Synced" =>
          /\ spc' \in {"Synced", "Ended"}
          /\ TakesEvent =>
                /\ received' = Append(received, Head(chan))
                /\ spc' = "Synced"
                /\ AppliesHead ]_vars

\* C3 witness: after the event that synced, an event with a smaller and an
\* event with a larger prev_ts than snapshot.timestamp were both applied
C3_Witness ==
    /\ spc = "Synced"
    /\ Len(received) = 3
    /\ received[1].prev_ts = snapshot.timestamp
    /\ received[2].prev_ts < snapshot.timestamp
    /\ received[3].prev_ts > snapshot.timestamp
    /\ outcome = "apply"
    /\ op = "delta"
    /\ (bids # preBids \/ asks # preAsks)

\* C4: every level stored in bids and in asks has a quantity > 0.
C4_StoredQuantitiesPositive ==
    /\ \A p \in DOMAIN bids : bids[p] > 0
    /\ \A p \in DOMAIN asks : asks[p] > 0

C5_Inv ==
    /\ nsnap <= 1
    /\ spc \in {"Buffering", "Fetching", "Panicked"} =>
          (nsnap = 0 /\ received = << >> /\ op = "none")
    /\ spc \in {"Reconciling", "Synced", "Aborted", "Ended"} => nsnap = 1
    /\ (received # << >> \/ op = "delta") => nsnap = 1

C5_Step ==
    /\ nsnap' # nsnap =>
          /\ nsnap = 0
          /\ received = << >>
          /\ op = "none"
          /\ preBids' = EmptyMap
          /\ preAsks' = EmptyMap
          /\ snapshot = None
          /\ snapshot' # None
          /\ arg' = ListsOf(snapshot'.data)
    /\ (nsnap' = nsnap /\ ~BookUnchanged) =>
          /\ nsnap = 1
          /\ TakesEvent
          /\ AppliesHead

\* C5: apply_snapshot runs at most once, on a new empty book, with the one
\* snapshot fetched, before any event is taken from the channel and before
\* any apply_delta; it has run exactly once whenever the for loop has been
\* reached; after it the book is changed by apply_delta only.
C5_OneSnapshotFirst == []C5_Inv /\ [][C5_Step]_vars

\* C5 witness: one snapshot applied, then two events taken and a delta
\* applied
C5_Witness ==
    /\ nsnap = 1
    /\ Len(received) >= 2
    /\ op = "delta"
    /\ snapshot # None

\* C6: the channel is a lossless FIFO: what the synchroniser has received,
\* followed by what is still queued, is exactly what the reader forwarded,
\* in the order it forwarded it.
C6_ChannelFifo == forwarded = received \o chan

\* C6 witness: two different events received in order while a third is
\* queued
C6_Witness ==
    /\ Len(received) = 2
    /\ received[1] # received[2]
    /\ Len(chan) = 1
    /\ chan[1] # received[2]


(***************************************************************************)
(* Properties of LocalOrderBook, checked under SpecBook                    *)
(***************************************************************************)
Min(a, b) == IF a <= b THEN a ELSE b

Range(s) == {s[i] : i \in DOMAIN s}

PricesOf(quotes) == {quotes[i].price : i \in DOMAIN quotes}

\* the levels of a list that no later level of the same price follows
LastLevels(quotes) ==
    { quotes[i] : i \in { i \in DOMAIN quotes :
                            \A j \in DOMAIN quotes :
                                j > i => quotes[j].price # quotes[i].price } }

SameOn(m1, m2, keys) == \A k \in keys : m1[k] = m2[k]

\* the map m2 is m1 without the key k
IsRemoval(m1, m2, k) ==
    /\ DOMAIN m2 = (DOMAIN m1) \ {k}
    /\ SameOn(m1, m2, DOMAIN m2)

\* a level with quantity 0 turns the map `before` into the map `after`: the
\* price is removed when it is present, and the map is left as it is when
\* the price is absent
ZeroLevelEffect(before, after, price) ==
    /\ price \in DOMAIN before => IsRemoval(before, after, price)
    /\ price \notin DOMAIN before => after = before

\* apply_delta level by level on the bid side: level i works on the map
\* the levels before it have made of pre
ZeroBidLevelsRemove(pre, quotes) ==
    \A i \in DOMAIN quotes :
        quotes[i].quantity = 0 =>
            ZeroLevelEffect(apply_delta_bids(pre, SubSeq(quotes, 1, i - 1)),
                            apply_delta_bids(pre, SubSeq(quotes, 1, i)),
                            quotes[i].price)

\* the same on the ask side
ZeroAskLevelsRemove(pre, quotes) ==
    \A i \in DOMAIN quotes :
        quotes[i].quantity = 0 =>
            ZeroLevelEffect(apply_delta_asks(pre, SubSeq(quotes, 1, i - 1)),
                            apply_delta_asks(pre, SubSeq(quotes, 1, i)),
                            quotes[i].price)

\* what that means for the book the call leaves: a price whose last level
\* in the list has quantity 0 is not in the map, and a list of nothing but
\* quantity-0 levels of absent prices leaves the map as it was
ZeroLevelsGone(pre, post, quotes) ==
    /\ \A l \in LastLevels(quotes) : l.quantity = 0 => l.price \notin DOMAIN post
    /\ (\A i \in DOMAIN quotes :
            quotes[i].quantity = 0 /\ quotes[i].price \notin DOMAIN pre)
       => post = pre

\* C7: apply_delta, on each side, for each level with quantity 0: a price
\* that is present is removed; for a price that is absent the book is left
\* exactly as it is.
C7_ZeroQuantityRemoves ==
    op = "delta" =>
        /\ ZeroBidLevelsRemove(preBids, arg.bids)
        /\ ZeroAskLevelsRemove(preAsks, arg.asks)
        /\ ZeroLevelsGone(preBids, bids, arg.bids)
        /\ ZeroLevelsGone(preAsks, asks, arg.asks)

\* C7 witness: a delta that lists the same price twice with quantity 0,
\* a price the bid side held among others: the first level removed it, the
\* second found it absent
C7_Witness ==
    /\ op = "delta"
    /\ Len(arg.bids) = 2
    /\ arg.bids[1].quantity = 0
    /\ arg.bids[2] = arg.bids[1]
    /\ arg.bids[1].price \in DOMAIN preBids
    /\ Cardinality(DOMAIN preBids) > 1
    /\ IsRemoval(preBids, bids, arg.bids[1].price)

\* C8: after apply_snapshot each side holds only prices of the snapshot's
\* list for that side; a price held before and absent from the snapshot is
\* not in the book afterwards.
C8_SnapshotDiscardsPrior ==
    op = "snapshot" =>
        /\ DOMAIN bids = PricesOf(arg.bids)
        /\ DOMAIN asks = PricesOf(arg.asks)
        /\ \A p \in (DOMAIN preBids) \ PricesOf(arg.bids) : p \notin DOMAIN bids
        /\ \A p \in (DOMAIN preAsks) \ PricesOf(arg.asks) : p \notin DOMAIN asks

\* C8 witness: a snapshot with levels on both sides applied to a book that
\* held, on both sides, prices the snapshot does not list
C8_Witness ==
    /\ op = "snapshot"
    /\ arg.bids # << >>
    /\ arg.asks # << >>
    /\ (DOMAIN preBids) \ PricesOf(arg.bids) # {}
    /\ (DOMAIN preAsks) \ PricesOf(arg.asks) # {}

Descending(s) == \A i \in 1..(Len(s) - 1) : s[i].price > s[i + 1].price
Ascending(s) == \A i \in 1..(Len(s) - 1) : s[i].price < s[i + 1].price
NonAscending(s) == \A i \in 1..(Len(s) - 1) : s[i].price >= s[i + 1].price
NonDescending(s) == \A i \in 1..(Len(s) - 1) : s[i].price <= s[i + 1].price

\* shown holds the n best of the set of levels L, the best being the highest
\* price
IsTopHighest(shown, L, n) ==
    /\ Len(shown) = Min(Cardinality(L), n)
    /\ Range(shown) \subseteq L
    /\ Descending(shown)
    /\ \A l \in L \ Range(shown) : \A i \in DOMAIN shown : l.price < shown[i].price

\* shown holds the n best of the set of levels L, the best being the lowest
\* price
IsTopLowest(shown, L, n) ==
    /\ Len(shown) = Min(Cardinality(L), n)
    /\ Range(shown) \subseteq L
    /\ Ascending(shown)
    /\ \A l \in L \ Range(shown) : \A i \in DOMAIN shown : l.price > shown[i].price

\* C9 as stated: the top levels read right after apply_snapshot are the
\* levels of the snapshot's list, every one of them, sorted best-first and
\* cut to the count.
C9_RoundTripEveryLevel ==
    (op = "snapshot" /\ printed) =>
        /\ Len(shownBids) = Min(Len(arg.bids), TopN)
        /\ Range(shownBids) \subseteq Range(arg.bids)
        /\ NonAscending(shownBids)
        /\ \A l \in Range(arg.bids) \ Range(shownBids) :
              \A i \in DOMAIN shownBids : l.price <= shownBids[i].price
        /\ Len(shownAsks) = Min(Len(arg.asks), TopN)
        /\ Range(shownAsks) \subseteq Range(arg.asks)
        /\ NonDescending(shownAsks)
        /\ \A l \in Range(arg.asks) \ Range(shownAsks) :
              \A i \in DOMAIN shownAsks : l.price >= shownAsks[i].price

\* C9 (amended): the top levels read right after apply_snapshot are the
\* levels of the snapshot's list, one per price (the last level listed for
\* a price), sorted best-first (bids by descending, asks by ascending
\* price) and cut to the count.
C9_RoundTripLastPerPrice ==
    (op = "snapshot" /\ printed) =>
        /\ IsTopHighest(shownBids, LastLevels(arg.bids), TopN)
        /\ IsTopLowest(shownAsks, LastLevels(arg.asks), TopN)

\* C9 witness: a snapshot of more than TopN levels, listed worst-first on
\* the bid side, was applied and read
C9_Witness ==
    /\ op = "snapshot"
    /\ printed
    /\ Len(arg.bids) > TopN
    /\ Ascending(arg.bids)
    /\ Len(shownBids) = TopN
    /\ preBids # EmptyMap

C10_Inv ==
    printed =>
        /\ Len(shownBids) <= TopN
        /\ Len(shownAsks) <= TopN
        /\ Len(shownBids) = Min(Cardinality(DOMAIN bids), TopN)
        /\ Len(shownAsks) = Min(Cardinality(DOMAIN asks), TopN)
        /\ Descending(shownBids)
        /\ Ascending(shownAsks)

C10_Step == (printed' /\ ~printed) => BookUnchanged

\* C10: the top-of-book read returns at most TopN entries per side, as many
\* as the side holds when it holds fewer (none for an empty side), bids in
\* strictly descending and asks in strictly ascending price order, and it
\* leaves the book unchanged.
C10_TopOfBook == []C10_Inv /\ [][C10_Step]_vars

\* C10 witness: a read of a book with more than TopN bid levels and no ask
\* level
C10_Witness ==
    /\ printed
    /\ Cardinality(DOMAIN bids) > TopN
    /\ Len(shownBids) = TopN
    /\ asks = EmptyMap
    /\ shownAsks = << >>


(***************************************************************************)
(* The reader thread and the end of the program                            *)
(***************************************************************************)
\* the reader thread has ended: by break, by panic, or with the process
ReaderEnded == rpc \in {"done", "panicked"} \/ exited

\* C11: once a frame read has failed after the connect, the reader's loop
\* ends: the reader thread eventually stops reading and terminates
C11_ReaderEndsAfterLoss == (sock = "lost") ~> ReaderEnded

AppliesEvent == TakesEvent /\ outcome' \in {"sync", "apply"}

\* C13: a failed send of the subscribe request or of a pong is fatal for the
\* whole program: from the panic of the unwrap on, the Synchronizer applies
\* no further event to the order book
C13_SendFailureFatal == [][rpc = "panicked" => ~AppliesEvent]_vars

(***************************************************************************)
(* Properties of the reader's loop body, checked under SpecReader          *)
(***************************************************************************)
\* the step is an iteration of the reader's loop: socket.read() returns
Reads == nreads' = nreads + 1

PingShapes == {"ping", "ping+data"}

\* C14: for every text frame that contains the ping marker, a frame that
\* would otherwise parse as a data frame included, the iteration that reads
\* it sends exactly one pong and forwards nothing (or the send fails, the
\* thread panics and reads nothing more); an iteration that reads anything
\* else sends no pong, and no pong is sent between two reads
C14_OnePongPerPing ==
    [][ /\ (Reads /\ lastRead' \in PingShapes) =>
            /\ UNCHANGED chanVars
            /\ \/ pongs' = pongs + 1 /\ rpc' = "loop"
               \/ pongs' = pongs /\ rpc' = "panicked"
        /\ (Reads /\ lastRead' \notin PingShapes) => pongs' = pongs
        /\ ~Reads => pongs' = pongs ]_vars

\* the first frame read had the ping marker and a data payload: one pong
\* sent, nothing forwarded, the reader ready to read the next frame
C14_Witness ==
    /\ lastRead = "ping+data"
    /\ nreads = 1
    /\ pongs = 1
    /\ forwarded = << >>
    /\ rpc = "loop"

\* the shapes of the frames with neither marker
NonControlShapes == {"unparsable", "data", "no_ts", "no_data", "empty"}

PartialShapes == {"no_ts", "no_data", "empty"}

\* the step forwards an event: tx.send accepts it
ForwardsEvent == forwarded' # forwarded

\* the event the step forwards is appended to the channel, and its prev_ts
\* is the prev_ts of the payload it carries
ForwardedWell ==
    LET event == forwarded'[Len(forwarded')] IN
    /\ forwarded' = Append(forwarded, event)
    /\ chan' = Append(chan, event)
    /\ event.prev_ts = event.delta.prev_ts

\* the iteration goes on to the next read, having reported no parse error
PassedOver == UNCHANGED chanVars /\ rpc' = "loop" /\ badSeen' = badSeen

\* C15 as stated: a frame with neither marker is forwarded if and only if it
\* carries both a top-level ts and a delta payload, the event's prev_ts being
\* the payload's; a frame that lacks a part is neither forwarded nor an error
C15_ForwardedIffBothParts ==
    [][ (Reads /\ lastRead' \in NonControlShapes) =>
            /\ ForwardsEvent <=> lastRead' = "data"
            /\ ForwardsEvent => ForwardedWell
            /\ lastRead' \in PartialShapes => PassedOver ]_vars

\* C15, amended: while the Receiver exists, a frame with neither marker is
\* forwarded if and only if it carries both a top-level ts and a delta
\* payload, the event's prev_ts being the payload's; once the Receiver is
\* gone no frame is forwarded; a frame that lacks a part is neither
\* forwarded nor an error
C15_ForwardedIffBothWhileReceived ==
    [][ (Reads /\ lastRead' \in NonControlShapes) =>
            /\ ForwardsEvent <=> (lastRead' = "data" /\ rxAlive)
            /\ ForwardsEvent => ForwardedWell
            /\ lastRead' \in PartialShapes => PassedOver ]_vars

\* a data frame has been forwarded, and after it a frame with a payload and
\* no ts has been read and passed over
C15_Witness ==
    /\ lastRead = "no_ts"
    /\ nreads = 2
    /\ Len(forwarded) = 1
    /\ forwarded[1].prev_ts = forwarded[1].delta.prev_ts
    /\ rpc = "loop"
    /\ ~badSeen

\* the iteration that reads a frame serde_json rejects forwards nothing and
\* leaves the loop and the connection as they were
ParseFailureHarmless ==
    (Reads /\ lastRead' = "unparsable") =>
        /\ UNCHANGED chanVars
        /\ rpc' = "loop"
        /\ sock' = "open"

\* C16 as stated: a frame that fails to parse is not fatal: nothing is
\* forwarded for it, the loop and the connection stay alive, and every data
\* frame read after it is forwarded, in order
C16_ParseFailureNotFatal ==
    [][ /\ ParseFailureHarmless
        /\ (badSeen /\ Reads /\ lastRead' = "data") =>
                (ForwardsEvent /\ ForwardedWell) ]_vars

\* C16, amended: a frame that fails to parse is not fatal: nothing is
\* forwarded for it, the loop and the connection stay alive, and every data
\* frame read after it while the Receiver exists is forwarded, in order
C16_ParseFailureNotFatalWhileReceived ==
    [][ /\ ParseFailureHarmless
        /\ (badSeen /\ Reads /\ lastRead' = "data" /\ rxAlive) =>
                (ForwardsEvent /\ ForwardedWell) ]_vars

\* a data frame, a frame that fails to parse and another data frame have
\* been read: both events are queued, in the order read
C16_Witness ==
    /\ badSeen
    /\ lastRead = "data"
    /\ nreads = 3
    /\ Len(forwarded) = 2
    /\ chan = forwarded
    /\ rpc = "loop"

\* C17: when the Receiver is gone, the iteration that reads a data frame
\* fails to send its event and ends the loop without a panic; nothing is
\* forwarded by it, and the reader reads and forwards nothing afterwards.
\* The loop ends in no other way.
C17_Inv == rpc = "done" => (~rxAlive /\ lastRead = "data")

C17_Step ==
    /\ (Reads /\ lastRead' = "data" /\ ~rxAlive) =>
            (rpc' = "done" /\ UNCHANGED chanVars)
    /\ rpc = "done" =>
            (rpc' = "done" /\ nreads' = nreads /\ forwarded' = forwarded)

C17_SendFailureBreaks == []C17_Inv /\ [][C17_Step]_vars

\* the run was aborted on a gap, and the reader has since read another data
\* frame and left its loop, the process not yet gone
C17_Witness ==
    /\ rpc = "done"
    /\ spc = "Aborted"
    /\ lastRead = "data"
    /\ Len(forwarded) < nreads
    /\ ~exited

(***************************************************************************)
(* The book against the stream, checked under Spec                         *)
(***************************************************************************)
\* each event's prev_ts is the ts of the event before it, and ts increases
Contiguous(events) ==
    \A i \in 2..Len(events) :
        /\ events[i].prev_ts = events[i - 1].ts
        /\ events[i].ts > events[i - 1].ts

\* the events that do not predate the snapshot, in the order given
NotBefore(events, timestamp) ==
    SelectSeq(events, LAMBDA e : e.prev_ts >= timestamp)

\* the bid side after the deltas of the events are applied in order
RECURSIVE ReferenceBids(_, _)
ReferenceBids(m, events) ==
    IF events = << >> THEN m
    ELSE ReferenceBids(apply_delta_bids(m, Head(events).delta.bids),
                       Tail(events))

\* the ask side after the deltas of the events are applied in order
RECURSIVE ReferenceAsks(_, _)
ReferenceAsks(m, events) ==
    IF events = << >> THEN m
    ELSE ReferenceAsks(apply_delta_asks(m, Head(events).delta.asks),
                       Tail(events))

\* C18: if the events received are contiguous, then whenever the
\* Synchronizer is Synced the book is the snapshot with, applied to it in
\* the order of arrival, exactly the received events whose prev_ts is not
\* less than snapshot.timestamp: none of these was dropped, and no event
\* that predates the snapshot was applied
C18_SyncedBookIsReference ==
    (spc = "Synced" /\ Contiguous(received)) =>
        LET kept == NotBefore(received, snapshot.timestamp) IN
        /\ bids = ReferenceBids(apply_snapshot_bids(EmptyMap, snapshot.data.bids),
                                kept)
        /\ asks = ReferenceAsks(apply_snapshot_asks(EmptyMap, snapshot.data.asks),
                                kept)

\* three contiguous events were received: the first predates the snapshot
\* and was dropped, the second synced, the third was applied after it, and
\* the book is no longer the snapshot's
C18_Witness ==
    /\ spc = "Synced"
    /\ Len(received) = 3
    /\ Contiguous(received)
    /\ received[1].prev_ts < snapshot.timestamp
    /\ received[2].prev_ts = snapshot.timestamp
    /\ received[1].delta.bids # received[2].delta.bids
    /\ bids # apply_snapshot_bids(EmptyMap, snapshot.data.bids)

(***************************************************************************)
(* A snapshot between two events, checked under SpecStraddle               *)
(***************************************************************************)
\* snapshot.timestamp lies strictly between the event's prev_ts and its ts
Straddles(event) ==
    /\ snapshot # None
    /\ event.prev_ts < snapshot.timestamp
    /\ snapshot.timestamp < event.ts

\* an event has synced the run
HasSynced == outcome \in {"sync", "apply"}

\* C19: the decision reads the event's prev_ts and never its ts.  So in a
\* contiguous stream an event that straddles the snapshot is dropped as
\* stale, and the event after it aborts the run; the Synchronizer is Synced
\* only if snapshot.timestamp equals the prev_ts of some event received, and
\* never after a straddling event of a contiguous stream
C19_Inv ==
    /\ spc = "Synced" =>
          \E i \in DOMAIN received : received[i].prev_ts = snapshot.timestamp
    /\ (Contiguous(received) /\ \E i \in DOMAIN received : Straddles(received[i]))
          => (spc # "Synced" /\ ~HasSynced)

C19_Step ==
    (spc = "Reconciling" /\ TakesEvent /\ Contiguous(received')) =>
        /\ outcome' = Reconcile(Head(chan).prev_ts, snapshot.timestamp)
        /\ Straddles(Head(chan)) =>
              (outcome' = "drop" /\ spc' = "Reconciling" /\ BookUnchanged)
        /\ (received # << >> /\ Straddles(received[Len(received)])) =>
              (outcome' = "abort" /\ spc' = "Aborted" /\ BookUnchanged)

C19_StraddleNeverSyncs == []C19_Inv /\ [][C19_Step]_vars

\* two contiguous events were received with the snapshot between the first
\* one's prev_ts and ts: the first was dropped and the second aborted the run
C19_Witness ==
    /\ spc = "Aborted"
    /\ Len(received) = 2
    /\ Contiguous(received)
    /\ Straddles(received[1])
    /\ received[2].prev_ts = received[1].ts
    /\ outcome = "abort"
    /\ op = "snapshot"

(***************************************************************************)
(* Progress, checked under FairMainSpec                                    *)
(***************************************************************************)
\* the snapshot is fetched, and the reader has forwarded an event whose
\* prev_ts is snapshot.timestamp after none but older events
SyncEventForwarded ==
    /\ snapshot # None
    /\ \E i \in DOMAIN forwarded :
          /\ forwarded[i].prev_ts = snapshot.timestamp
          /\ \A j \in 1..(i - 1) : forwarded[j].prev_ts < snapshot.timestamp

\* the Synchronizer is Synced, or was when its loop ended
ReachedSynced == spc = "Synced" \/ (spc = "Ended" /\ HasSynced)

\* C20: with the snapshot fetched and the main thread scheduled fairly, once
\* the reader has forwarded an event with prev_ts = snapshot.timestamp, every
\* event forwarded before it having a smaller prev_ts, the Synchronizer
\* eventually reaches Synced; and it leaves Reconciling only to Synced, to
\* Aborted, or because the channel is closed
C20_Progress ==
    /\ SyncEventForwarded ~> ReachedSynced
    /\ [][(spc = "Reconciling" /\ spc' # spc)
            => spc' \in {"Synced", "Aborted", "Ended"}]_vars

\* the reader forwarded an older event and then the event with
\* prev_ts = snapshot.timestamp; the first was dropped and the second synced
C20_Witness ==
    /\ SyncEventForwarded
    /\ spc = "Synced"
    /\ outcome = "sync"
    /\ Len(received) = 2
    /\ received[1].prev_ts < snapshot.timestamp

====
